---- MODULE Spec2Model ----
(***************************************************************************)
(* Model of scripts/ast_analysis.py: the Visitor that keeps a stack of     *)
(* scope markers while it walks a syntax tree and records a finding for a  *)
(* break, continue or return that escapes a finally suite, and the         *)
(* Reporter / main loop that feeds it files, directories and tarballs.     *)
(*                                                                         *)
(* The syntax tree is not stored: the traversal reveals it.  `path` is the *)
(* chain of visit() calls in progress, one frame per compound statement    *)
(* being traversed, and every behaviour of the visitor actions is the      *)
(* depth-first walk of one tree the parser can produce.  Spec is the whole *)
(* program, main() over its filenames; VisitorSpec is the Visitor on one   *)
(* tree, with room for a larger tree; OrderSpec is VisitorSpec run with    *)
(* the suites of a try statement in either of two orders.  A frame counts  *)
(* the statements the Visitor dispatches on (break, continue, return) and  *)
(* the compound statements; the other simple statements of a suite, whose  *)
(* visit changes nothing, are left out, so a suite with no counted         *)
(* statement stands for one that is absent or holds only such statements.  *)
(***************************************************************************)
EXTENDS Integers, Sequences, FiniteSets, TLC

\* ---------------------------------------------------------------- bounds
MaxNodes == 3      \* represented statements in the tree of VisitorSpec
MaxScanNodes == 2  \* represented statements in the trees of one scan of Spec
MaxFiles == 3      \* paths of one scan: filenames, tarball members, walked files
MaxNewlines == 1   \* newline bytes in one source text

\* ------------------------------------------------------- program constants
FINALLY == "F"
LOOP == "L"
DEF_ == "D"

None == "None"

VARIABLES
    pc,         \* where main() is: start, main, visit, done, exit, nameerror, aborted
    verbose,    \* main's verbosity level
    order,      \* the traversal run: "code", do_Try's own, in Spec and VisitorSpec
    filenames,  \* number of paths still to come, those of `container` apart
    container,  \* tarball or directory being iterated: [kind, left]
    state,      \* Visitor.state, the marker stack
    path,       \* the visit() calls in progress, outermost first
    nodes,      \* number of represented statements still to be visited
    findings,   \* Reporter.findings
    lines,      \* Reporter.lines
    diag,       \* what handling the latest input printed besides findings
    last,       \* history: how the handling of the latest input went
    before,     \* history: findings and lines when the latest input was taken up
    visited     \* history: the break, continue or return the traversal visited last

vars == <<pc, verbose, order, filenames, container, state, path, nodes,
          findings, lines, diag, last, before, visited>>

\* ------------------------------------------------------------ syntax trees
SimpleKinds == {"Break", "Continue", "Return"}
LoopKinds == {"For", "While"}
TryKinds == {"Try", "TryStar"}
GenericKinds == {"AsyncFor", "AsyncFunctionDef", "If"}
CompoundKinds == LoopKinds \cup TryKinds \cup GenericKinds \cup {"FunctionDef"}

\* mutant: do_Try walks finalbody before the handlers
TryFields_FinalbodyEarly == <<"body", "finalbody", "handlers", "orelse">>

\* The suites of a try statement in the order do_Try walks them.
TryFields == <<"body", "handlers", "orelse", "finalbody">>

\* The suites of any other node in the order generic_visit walks them.
GenericFields(kind) ==
    IF kind \in {"FunctionDef", "AsyncFunctionDef", "Module"}
    THEN <<"body">>
    ELSE <<"body", "orelse">>

\* The suites of a try statement in the order of a traversal that walks the
\* handlers before the protected body, FINALLY still pushed around finalbody.
TryFields_HandlersFirst == <<"handlers", "body", "orelse", "finalbody">>

Fields(kind) ==
    IF kind \in TryKinds
    THEN IF order = "code" THEN TryFields ELSE TryFields_HandlersFirst
    ELSE GenericFields(kind)

\* Position of a suite in the text of its statement.
TextPos(fname) ==
    CASE fname = "body" -> 1
      [] fname = "handlers" -> 2
      [] fname = "orelse" -> 3
      [] fname = "finalbody" -> 4

RECURSIVE Pow(_, _)
Pow(b, e) == IF e = 0 THEN 1 ELSE b * Pow(b, e - 1)

Stride == 4 * MaxNodes + 1

\* lineno the parser gives the n-th statement of suite fname of a statement
\* at line `lineno`, the new statement being `depth` levels below the module:
\* later in the text, larger lineno.
ChildLine(lineno, fname, n, depth) ==
    lineno + ((TextPos(fname) - 1) * MaxNodes + n) * Pow(Stride, MaxNodes - depth)

Frame(kind, lineno) ==
    [kind |-> kind, field |-> 1, n |-> 0, lineno |-> lineno]

top == path[Len(path)]
curField == Fields(top.kind)[top.field]
nextLine == ChildLine(top.lineno, curField, top.n + 1, Len(path))

\* --------------------------------------------------------------- Visitor
\* mutant: the marker on top of the stack decides, nothing is skipped
ScanState_TopOnly(st, i, good_state) ==
    IF i = 0 THEN None ELSE st[i]

\* mutant: the scan runs from the outermost marker inward
RECURSIVE ScanUp(_, _, _)
ScanUp(st, k, good_state) ==
    IF k > Len(st) THEN None
    ELSE IF st[k] \in {FINALLY, good_state} THEN st[k]
    ELSE ScanUp(st, k + 1, good_state)

ScanState_Outermost(st, i, good_state) == ScanUp(st, 1, good_state)

\* The loop of do_forbidden: from the top of the stack down, the first marker
\* that is FINALLY or good_state; None when there is none.
RECURSIVE ScanState(_, _, _)
ScanState(st, i, good_state) ==
    IF i = 0 THEN None
    ELSE IF st[i] \in {FINALLY, good_state} THEN st[i]
    ELSE ScanState(st, i - 1, good_state)

\* the filename of the source unit being analysed
filename == <<filenames, container.kind, container.left>>

Finding(lineno) == [filename |-> filename, lineno |-> lineno]

\* mutant: a finding unless the scan ends on good_state
do_forbidden_Unless(lineno, good_state) ==
    IF ScanState(state, Len(state), good_state) # good_state
    THEN Append(findings, Finding(lineno))
    ELSE findings

\* mutant: LOOP and DEF both count as good_state, whatever the statement
do_forbidden_AnyGood(lineno, good_state) ==
    IF state # <<>> /\ state[Len(state)] = FINALLY
    THEN Append(findings, Finding(lineno))
    ELSE findings

\* mutant: a finding equal to a recorded one is not appended again
do_forbidden_Dedup(lineno, good_state) ==
    IF state = <<>> THEN findings
    ELSE IF /\ ScanState(state, Len(state), good_state) = FINALLY
            /\ \A i \in DOMAIN findings : findings[i] # Finding(lineno)
         THEN Append(findings, Finding(lineno))
         ELSE findings

do_forbidden(lineno, good_state) ==
    IF state = <<>> THEN findings
    ELSE IF ScanState(state, Len(state), good_state) = FINALLY
         THEN Append(findings, Finding(lineno))
         ELSE findings

aggregateVars == <<pc, verbose, order, filenames, container, lines, diag, last, before>>

\* a further statement can be visited in the suite being walked
MoreStmts == pc = "visit" /\ nodes > 0

Advance == [path EXCEPT ![Len(path)].n = @ + 1]

Simple(kind, good_state) ==
    /\ MoreStmts
    /\ findings' = do_forbidden(nextLine, good_state)
    /\ path' = Advance
    /\ nodes' = nodes - 1
    /\ visited' = [kind |-> kind, lineno |-> nextLine]
    /\ UNCHANGED <<state, aggregateVars>>

visit_Break == Simple("Break", LOOP)

visit_Continue == Simple("Continue", LOOP)

\* mutant: visit_Return passes good_state=LOOP
visit_Return_Loop == Simple("Return", LOOP)

visit_Return == Simple("Return", DEF_)

\* the good_state each visit_ method passes to do_forbidden
GoodState(kind) == IF kind = "Return" THEN DEF_ ELSE LOOP

\* the statement visited last stands in the suite being walked and is its
\* latest statement: a further simple statement can share its line (a; b)
SameLinePossible ==
    /\ top.n > 0
    /\ visited.kind \in SimpleKinds
    /\ visited.lineno = ChildLine(top.lineno, curField, top.n, Len(path))

\* visit_Break, visit_Continue or visit_Return on a statement written on the
\* line of the statement before it
visit_same_line ==
    /\ MoreStmts
    /\ SameLinePossible
    /\ \E kind \in SimpleKinds :
          /\ findings' = do_forbidden(visited.lineno, GoodState(kind))
          /\ visited' = [kind |-> kind, lineno |-> visited.lineno]
    /\ path' = Advance
    /\ nodes' = nodes - 1
    /\ UNCHANGED <<state, aggregateVars>>

Enter(kind, pushed) ==
    /\ MoreStmts
    /\ path' = Append(path, Frame(kind, nextLine))
    /\ state' = state \o pushed
    /\ nodes' = nodes - 1
    /\ UNCHANGED <<findings, visited, aggregateVars>>

do_Loop(kind) == Enter(kind, <<LOOP>>)

do_FunctionDef == Enter("FunctionDef", <<DEF_>>)

\* mutant: do_Try pushes FINALLY before the loop over body
do_Try_PushEarly(kind) == Enter(kind, <<FINALLY>>)

do_Try(kind) == Enter(kind, <<>>)

visit_For == do_Loop("For")

visit_While == do_Loop("While")

visit_FunctionDef == do_FunctionDef

visit_Try == do_Try("Try")

visit_TryStar == do_Try("TryStar")

\* node kinds the Visitor has no method for
generic_visit == \E kind \in GenericKinds : Enter(kind, <<>>)

\* the traversal of the current node goes on to its next suite
NextSuite(pushed) ==
    /\ pc = "visit"
    /\ top.field < Len(Fields(top.kind))
    /\ path' = [path EXCEPT ![Len(path)].field = @ + 1, ![Len(path)].n = 0]
    /\ state' = state \o pushed
    /\ UNCHANGED <<nodes, findings, visited, aggregateVars>>

\* do_Try from one of its for loops to the next; FINALLY is pushed before the
\* loop over finalbody
do_Try_next ==
    /\ pc = "visit"
    /\ top.kind \in TryKinds
    /\ NextSuite(IF Fields(top.kind)[top.field + 1] = "finalbody" THEN <<FINALLY>> ELSE <<>>)

generic_visit_next ==
    /\ pc = "visit"
    /\ top.kind \notin TryKinds
    /\ NextSuite(<<>>)

Pop(st) == SubSeq(st, 1, Len(st) - 1)

\* the visit of the current node returns to the visit of its parent
Return(popped) ==
    /\ pc = "visit"
    /\ Len(path) > 1
    /\ top.field = Len(Fields(top.kind))
    /\ path' = [SubSeq(path, 1, Len(path) - 1) EXCEPT ![Len(path) - 1].n = @ + 1]
    /\ state' = IF popped THEN Pop(state) ELSE state
    /\ UNCHANGED <<nodes, findings, visited, aggregateVars>>

\* mutant: do_Try returns without self.state.pop()
do_Try_exit_NoPop == pc = "visit" /\ top.kind \in TryKinds /\ Return(FALSE)

do_Try_exit == pc = "visit" /\ top.kind \in TryKinds /\ Return(TRUE)

do_Loop_exit == pc = "visit" /\ top.kind \in LoopKinds /\ Return(TRUE)

do_FunctionDef_exit == pc = "visit" /\ top.kind = "FunctionDef" /\ Return(TRUE)

generic_visit_exit == pc = "visit" /\ top.kind \in GenericKinds /\ Return(FALSE)

VisitorStep ==
    \/ visit_Break
    \/ visit_Continue
    \/ visit_Return
    \/ visit_same_line
    \/ visit_For
    \/ visit_While
    \/ visit_FunctionDef
    \/ visit_Try
    \/ visit_TryStar
    \/ generic_visit
    \/ do_Try_next
    \/ generic_visit_next
    \/ do_Try_exit
    \/ do_Loop_exit
    \/ do_FunctionDef_exit
    \/ generic_visit_exit

\* -------------------------------------------------------- Reporter and main
ParseOutcomes == {"ok", "SyntaxError", "RecursionError"}

NoContainer == [kind |-> "none", left |-> 0]

NoVisit == [kind |-> "none", lineno |-> 0]

\* verbose = 1 + args.verbose - args.quiet
Verbosity(v, q) == 1 + (IF v THEN 1 ELSE 0) - (IF q THEN 1 ELSE 0)

Init ==
    /\ pc = "start"
    /\ verbose \in {Verbosity(v, q) : v \in BOOLEAN, q \in BOOLEAN}
    /\ order = "code"
    /\ filenames \in 0..MaxFiles
    /\ container = NoContainer
    /\ state = <<>>
    /\ path = <<>>
    /\ nodes = MaxScanNodes
    /\ findings = <<>>
    /\ lines = 0
    /\ diag = <<>>
    /\ last = "none"
    /\ before = [findings |-> <<>>, lines |-> 0]
    /\ visited = NoVisit

\* main() from the check of the filenames to the construction of the
\* Reporter; OF_INTEREST_NAMES is defined nowhere
main_start ==
    /\ pc = "start"
    /\ pc' = IF filenames = 0 THEN "exit"
             ELSE IF verbose >= 2 THEN "nameerror"
             ELSE "main"
    /\ UNCHANGED <<verbose, order, filenames, container, state, path, nodes,
                   findings, lines, diag, last, before, visited>>

\* mutant: the except clause names SyntaxError alone
Catches_SyntaxOnly(exc) == exc = "SyntaxError"

\* the except clause of Reporter.report
Catches(exc) == exc \in {"SyntaxError", "RecursionError"}

\* mutant: the diagnostic is printed under `if verbose > 1`
Printed_Raised(level) == IF level > 1 THEN <<"err">> ELSE <<>>

\* print(name, err) under `if verbose > 0`
Printed(level) == IF level > 0 THEN <<"err">> ELSE <<>>

\* mutant: the Visitor of an input takes over the stack the last one left
report_KeepState(parse, protected) ==
    IF parse = "ok"
    THEN /\ pc' = "visit"
         /\ path' = <<Frame("Module", 0)>>
         /\ last' = "parsed"
         /\ diag' = <<>>
         /\ visited' = NoVisit
         /\ UNCHANGED <<state, nodes, findings, lines>>
    ELSE /\ last' = "parsefail"
         /\ pc' = IF Catches(parse) \/ protected THEN "main" ELSE "aborted"
         /\ diag' = IF Catches(parse) \/ ~protected THEN <<>> ELSE Printed(verbose)
         /\ UNCHANGED <<state, path, nodes, findings, lines, visited>>

\* Reporter.report up to the call of Visitor.visit; `protected` tells whether
\* the caller wraps the call in try/except Exception.
report(parse, protected) ==
    IF parse = "ok"
    THEN /\ pc' = "visit"
         /\ state' = <<>>
         /\ path' = <<Frame("Module", 0)>>
         /\ last' = "parsed"
         /\ diag' = <<>>
         /\ visited' = NoVisit
         /\ UNCHANGED <<nodes, findings, lines>>
    ELSE /\ last' = "parsefail"
         /\ pc' = IF Catches(parse) \/ protected THEN "main" ELSE "aborted"
         /\ diag' = IF Catches(parse) \/ ~protected THEN <<>> ELSE Printed(verbose)
         /\ UNCHANGED <<state, path, nodes, findings, lines, visited>>

Snapshot == [findings |-> findings, lines |-> lines]

file_report(read, parse) ==
    /\ before' = Snapshot
    /\ IF read
       THEN report(parse, TRUE)
       ELSE /\ diag' = Printed(verbose)
            /\ last' = "readfail"
            /\ UNCHANGED <<pc, state, path, nodes, findings, lines, visited>>

AtLoop == pc = "main" /\ container.kind = "none"

\* os.path.isfile(filename) and not filename.endswith(".tar.gz")
main_file ==
    /\ AtLoop /\ filenames > 0
    /\ filenames' = filenames - 1
    /\ \E read \in BOOLEAN, parse \in ParseOutcomes :
          file_report(read, parse)
    /\ UNCHANGED <<verbose, order, container>>

\* os.path.isfile(filename) and filename.endswith(".tar.gz"): tarball_report
\* up to the loop over the members
main_tarball ==
    /\ AtLoop /\ filenames > 0
    /\ \E opens \in BOOLEAN :
          IF opens
          THEN /\ \E n \in 0..(filenames - 1) :
                     /\ container' = [kind |-> "tar", left |-> n]
                     /\ filenames' = filenames - 1 - n
               /\ UNCHANGED <<pc, last, diag>>
          ELSE /\ pc' = "aborted"
               /\ last' = "openfail"
               /\ diag' = <<>>
               /\ filenames' = filenames - 1
               /\ container' = container
    /\ UNCHANGED <<verbose, order, state, path, nodes, findings, lines, before, visited>>

\* one member of the tarball
tarball_member ==
    /\ pc = "main" /\ container.kind = "tar" /\ container.left > 0
    /\ container' = [container EXCEPT !.left = @ - 1]
    /\ \E py \in BOOLEAN, read \in BOOLEAN, parse \in ParseOutcomes :
          IF ~py
          THEN UNCHANGED <<pc, state, path, nodes, findings, lines, diag,
                           last, before, visited>>
          ELSE /\ before' = Snapshot
               /\ IF read
                  THEN report(parse, FALSE)
                  ELSE /\ diag' = Printed(verbose)
                       /\ last' = "readfail"
                       /\ UNCHANGED <<pc, state, path, nodes, findings, lines, visited>>
    /\ UNCHANGED <<verbose, order, filenames>>

\* os.path.isdir(filename): os.walk
main_dir ==
    /\ AtLoop /\ filenames > 0
    /\ \E n \in 0..(filenames - 1) :
          /\ container' = [kind |-> "dir", left |-> n]
          /\ filenames' = filenames - 1 - n
    /\ UNCHANGED <<pc, verbose, order, state, path, nodes, findings, lines,
                   diag, last, before, visited>>

\* one file of the directory walk
dir_file ==
    /\ pc = "main" /\ container.kind = "dir" /\ container.left > 0
    /\ container' = [container EXCEPT !.left = @ - 1]
    /\ \E py \in BOOLEAN, read \in BOOLEAN, parse \in ParseOutcomes :
          IF ~py
          THEN UNCHANGED <<pc, state, path, nodes, findings, lines, diag,
                           last, before, visited>>
          ELSE file_report(read, parse)
    /\ UNCHANGED <<verbose, order, filenames>>

\* the members of the tarball, or the files of the walk, are exhausted
container_end ==
    /\ pc = "main" /\ container.kind # "none" /\ container.left = 0
    /\ container' = NoContainer
    /\ UNCHANGED <<pc, verbose, order, filenames, state, path, nodes, findings,
                   lines, diag, last, before, visited>>

\* neither a file nor a directory
main_cannot_open ==
    /\ AtLoop /\ filenames > 0
    /\ filenames' = filenames - 1
    /\ diag' = <<"cannot">>
    /\ last' = "cannot"
    /\ UNCHANGED <<pc, verbose, order, container, state, path, nodes, findings,
                   lines, before, visited>>

\* the filenames are exhausted: print the total
main_done ==
    /\ AtLoop /\ filenames = 0
    /\ pc' = "done"
    /\ UNCHANGED <<verbose, order, filenames, container, state, path, nodes,
                   findings, lines, diag, last, before, visited>>

\* len(source.split(b'\n'))
SplitLen(src) == src + 1

\* mutant: self.lines = len(...) in place of self.lines += len(...)
report_return_Assign ==
    /\ pc = "visit" /\ Len(path) = 1
    /\ pc' = "main"
    /\ path' = <<>>
    /\ \E src \in 0..MaxNewlines : lines' = SplitLen(src)
    /\ last' = "ok"
    /\ visited' = NoVisit
    /\ UNCHANGED <<verbose, order, filenames, container, state, nodes, findings,
                   diag, before>>

\* Visitor.visit returns to Reporter.report, which counts the lines of the
\* source, a text of src newline bytes
report_return ==
    /\ pc = "visit" /\ Len(path) = 1
    /\ pc' = "main"
    /\ path' = <<>>
    /\ \E src \in 0..MaxNewlines : lines' = lines + SplitLen(src)
    /\ last' = "ok"
    /\ visited' = NoVisit
    /\ UNCHANGED <<verbose, order, filenames, container, state, nodes, findings,
                   diag, before>>

\* RecursionError inside Visitor.visit: the tree is deeper than the
\* interpreter's recursion limit lets generic_visit descend.  file_report
\* catches it, tarball_report does not.
visit_raises ==
    /\ pc = "visit"
    /\ last' = "visitfail"
    /\ path' = <<>>
    /\ IF container.kind = "tar"
       THEN pc' = "aborted" /\ diag' = diag
       ELSE pc' = "main" /\ diag' = Printed(verbose)
    /\ visited' = NoVisit
    /\ UNCHANGED <<verbose, order, filenames, container, state, nodes, findings,
                   lines, before>>

Next ==
    \/ main_start
    \/ main_file
    \/ main_tarball
    \/ tarball_member
    \/ main_dir
    \/ dir_file
    \/ container_end
    \/ main_cannot_open
    \/ main_done
    \/ report_return
    \/ visit_raises
    \/ VisitorStep

Spec == Init /\ [][Next]_vars

\* The Visitor alone, on one tree: the state in which Reporter.report has
\* just built it.
VisitorInit ==
    /\ pc = "visit"
    /\ verbose = 1
    /\ order = "code"
    /\ filenames = 0
    /\ container = NoContainer
    /\ state = <<>>
    /\ path = <<Frame("Module", 0)>>
    /\ nodes = MaxNodes
    /\ findings = <<>>
    /\ lines = 0
    /\ diag = <<>>
    /\ last = "parsed"
    /\ before = [findings |-> <<>>, lines |-> 0]
    /\ visited = NoVisit

VisitorNext == VisitorStep \/ report_return

VisitorSpec == VisitorInit /\ [][VisitorNext]_vars

\* ------------------------------------------------------------------ claims
Range(seq) == {seq[i] : i \in DOMAIN seq}

\* Scanning st from its top, the first marker that is FINALLY or good is FINALLY.
NearestIsCleanup(st, good) ==
    \E i \in DOMAIN st :
        /\ st[i] = FINALLY
        /\ \A j \in (i + 1)..Len(st) : st[j] \notin {FINALLY, good}

Recorded == findings' = Append(findings, Finding(nextLine))

NotRecorded == findings' = findings

\* lineno of the statement visited last in the suite being walked
lastLine == ChildLine(top.lineno, curField, top.n, Len(path))

\* the traversal has just visited a statement of one of `kinds`, and stands
\* right after it
JustVisited(kinds) ==
    /\ pc = "visit"
    /\ top.n > 0
    /\ visited.kind \in kinds
    /\ visited.lineno = lastLine

Flagged == findings # <<>> /\ findings[Len(findings)] = Finding(visited.lineno)

NotFlagged == \A i \in DOMAIN findings : findings[i] # Finding(visited.lineno)

\* Lexical nesting, read off the path: frame i is a try statement whose
\* finally suite is being walked.
InCleanupAt(i) ==
    /\ path[i].kind \in TryKinds
    /\ Fields(path[i].kind)[path[i].field] = "finalbody"

LexLoops == {"For", "While", "AsyncFor"}

LexFunctions == {"FunctionDef", "AsyncFunctionDef"}

\* the statement stands directly in a finally suite
TopLevelOfCleanup == Len(path) > 1 /\ InCleanupAt(Len(path))

\* a construct of `kinds` lies inside a finally suite and holds the statement,
\* with no finally suite between the statement and that construct
Shielded(kinds) ==
    \E j \in 2..Len(path) :
        /\ path[j].kind \in kinds
        /\ \E i \in 2..(j - 1) : InCleanupAt(i)
        /\ \A k \in (j + 1)..Len(path) : ~InCleanupAt(k)

\* the statement is inside a finally suite with no construct of `kinds`
\* between it and that suite
NoneBetween(kinds) ==
    \E i \in 2..Len(path) :
        /\ InCleanupAt(i)
        /\ \A j \in (i + 1)..Len(path) : path[j].kind \notin kinds

\* the statement is inside a finally suite, and the constructs between it
\* and that suite, at least one, are all of `kinds`
OnlyBetween(kinds) ==
    \E i \in 2..(Len(path) - 1) :
        /\ InCleanupAt(i)
        /\ \A j \in (i + 1)..Len(path) : path[j].kind \in kinds

\* C1: a break or continue visited with a non-empty stack appends a finding
\* exactly when the first marker from the top that is FINALLY or LOOP is
\* FINALLY (DEF markers are passed over); otherwise findings is unchanged.
C1_BreakContinueVerdict ==
    [][((visit_Break \/ visit_Continue) /\ state # <<>>)
        => IF NearestIsCleanup(state, LOOP) THEN Recorded ELSE NotRecorded]_vars

\* a break or continue inside a function inside a finally suite was flagged
C1_Witness ==
    /\ JustVisited({"Break", "Continue"})
    /\ state = <<FINALLY, DEF_>>
    /\ Flagged

\* C2: a return visited with a non-empty stack appends a finding exactly when
\* the first marker from the top that is FINALLY or DEF is FINALLY (LOOP
\* markers are passed over); otherwise findings is unchanged.
C2_ReturnVerdict ==
    [][(visit_Return /\ state # <<>>)
        => IF NearestIsCleanup(state, DEF_) THEN Recorded ELSE NotRecorded]_vars

\* a return inside a loop inside a finally suite was flagged
C2_Witness ==
    /\ JustVisited({"Return"})
    /\ state = <<FINALLY, LOOP>>
    /\ Flagged

\* C3: a break or continue in a finally suite with no loop between it and
\* that suite, and a return in a finally suite with no function between, is
\* flagged, whatever encloses the try statement.
C3_TopLevelOfCleanup ==
    \/ JustVisited({"Break", "Continue"}) /\ NoneBetween(LexLoops)
    \/ JustVisited({"Return"}) /\ NoneBetween(LexFunctions)
    => Flagged

\* for ...: try: ... finally: break -- the enclosing loop did not excuse it
C3_Witness ==
    /\ JustVisited({"Break", "Continue"})
    /\ TopLevelOfCleanup
    /\ Len(path) = 3
    /\ path[2].kind \in LoopKinds
    /\ Flagged

\* C4: a break or continue inside a loop that is inside a finally suite, and
\* a return inside a function that is inside a finally suite, is not flagged,
\* for every loop and every function construct.
C4_ShieldedNeverFlagged ==
    \/ JustVisited({"Break", "Continue"}) /\ Shielded(LexLoops)
    \/ JustVisited({"Return"}) /\ Shielded(LexFunctions)
    => NotFlagged

\* C5: a return in a finally suite with only loops between, and a break or
\* continue in a finally suite with only functions between, is flagged.
C5_WrongKindNeverExcuses ==
    \/ JustVisited({"Return"}) /\ OnlyBetween(LexLoops)
    \/ JustVisited({"Break", "Continue"}) /\ OnlyBetween(LexFunctions)
    => Flagged

\* try: ... finally: while ...: return
C5_Witness ==
    /\ JustVisited({"Return"})
    /\ top.kind = "While"
    /\ OnlyBetween(LexLoops)
    /\ Flagged

\* C6: a break, continue or return visited while the stack holds no FINALLY
\* marker, the empty stack included, leaves findings unchanged.
C6_NoCleanupNoFinding ==
    [][((visit_Break \/ visit_Continue \/ visit_Return) /\ FINALLY \notin Range(state))
        => NotRecorded]_vars

\* a break at module level was visited and nothing was recorded
C6_Witness ==
    /\ JustVisited({"Break"})
    /\ Len(path) = 1
    /\ state = <<>>
    /\ findings = <<>>

\* C7: after a parse failure findings and lines are what they were when the
\* input was taken up, nothing was raised (no diagnostic of a caught
\* exception, no abort) and main is back in its loop.
C7_ParseFailureSkipped ==
    last = "parsefail" =>
        /\ findings = before.findings
        /\ lines = before.lines
        /\ diag = <<>>
        /\ pc \in {"main", "done"}

\* an input failed to parse after another had contributed a finding and lines
C7_Witness ==
    /\ last = "parsefail"
    /\ findings # <<>>
    /\ lines > 0
    /\ pc = "main"

\* C8: no failure met while handling an input aborts the scan: main never
\* stops on an exception while paths remain to be processed.
C8_NoFailureAborts ==
    ~(pc = "aborted" /\ (filenames > 0 \/ container.left > 0))

\* C9 as amended: a read failure prints one diagnostic at verbosity 1, the
\* default, and above, and prints nothing at verbosity 0 (quiet).
C9_ReadFailureDiagnostic ==
    last = "readfail" => diag = (IF verbose > 0 THEN <<"err">> ELSE <<>>)

\* a read failure at the default verbosity printed its diagnostic
C9_Witness ==
    /\ last = "readfail"
    /\ verbose = 1
    /\ diag = <<"err">>

\* C9 as stated: at the default verbosity a read failure prints nothing.
C9_SilentAtDefault ==
    (last = "readfail" /\ verbose = 1) => diag = <<>>

NewlineDelimited(src) == src + 1

\* the step ends the handling of an input that parsed successfully
EndsParsedInput == last = "parsed" /\ last' # "parsed"

\* C11: the line total grows by the line count of every input that parsed
\* successfully, when its handling ends, and by nothing else.
C11_LineTotal ==
    [][IF EndsParsedInput
       THEN \E src \in 0..MaxNewlines : lines' = lines + NewlineDelimited(src)
       ELSE lines' = lines]_vars

\* the step visits a break, continue or return: a statement is consumed and
\* the traversal stays in the suite it is walking
StatementVisited ==
    /\ pc = "visit"
    /\ nodes' = nodes - 1
    /\ Len(path') = Len(path)

\* the statement the step visits has the nearest-match verdict CLEANUP
VerdictCleanup ==
    NearestIsCleanup(state, IF visited'.kind = "Return" THEN DEF_ ELSE LOOP)

\* C12: every step that visits a statement whose nearest-match verdict is
\* CLEANUP appends exactly one finding, for the statement's line, whatever
\* has been recorded before; every other step leaves findings as it was.
C12_OneFindingPerViolation ==
    [][IF StatementVisited /\ VerdictCleanup
       THEN findings' = Append(findings, Finding(visited'.lineno))
       ELSE findings' = findings]_vars

\* try: ... finally: break; return -- two violations on one line, two findings
C12_Witness ==
    /\ pc = "visit"
    /\ Len(findings) = 2
    /\ findings[1] = findings[2]
    /\ visited.lineno = findings[2].lineno

\* The Visitor on one tree, run as the code runs it or with the handlers of
\* every try statement walked before its protected body.
OrderInit ==
    /\ pc = "visit"
    /\ verbose = 1
    /\ order \in {"code", "handlers_first"}
    /\ filenames = 0
    /\ container = NoContainer
    /\ state = <<>>
    /\ path = <<Frame("Module", 0)>>
    /\ nodes = MaxNodes
    /\ findings = <<>>
    /\ lines = 0
    /\ diag = <<>>
    /\ last = "parsed"
    /\ before = [findings |-> <<>>, lines |-> 0]
    /\ visited = NoVisit

OrderSpec == OrderInit /\ [][VisitorNext]_vars

\* the marker the Visitor keeps for a construct while the suite p[i].field of
\* it is walked: read off the nesting, whatever was walked before
LexMarker(frame) ==
    IF frame.kind \in LoopKinds THEN <<LOOP>>
    ELSE IF frame.kind = "FunctionDef" THEN <<DEF_>>
    ELSE IF /\ frame.kind \in TryKinds
            /\ Fields(frame.kind)[frame.field] = "finalbody"
         THEN <<FINALLY>>
         ELSE <<>>

RECURSIVE LexMarkers(_, _)
LexMarkers(p, i) ==
    IF i = 0 THEN <<>> ELSE LexMarkers(p, i - 1) \o LexMarker(p[i])

\* C13: under either order of walking the suites of a try statement, a
\* statement is recorded exactly when the constructs that enclose it, taken
\* from the nesting alone, give the verdict CLEANUP, and the finding carries
\* the statement's line in the text: the findings of a tree are the same
\* set under both orders.
C13_OrderIndependent ==
    [][StatementVisited =>
        IF NearestIsCleanup(LexMarkers(path, Len(path)),
                            IF visited'.kind = "Return" THEN DEF_ ELSE LOOP)
        THEN findings' = Append(findings, Finding(visited'.lineno))
        ELSE findings' = findings]_vars

\* handlers walked first: a break in a handler of a try statement inside a
\* finally suite was flagged before the body of that try statement was walked
C13_Witness ==
    /\ order = "handlers_first"
    /\ JustVisited({"Break", "Continue"})
    /\ curField = "handlers"
    /\ top.field = 1
    /\ Flagged

\* the suite of a frame's statement that is being walked
SuiteOf(frame) == Fields(frame.kind)[frame.field]

\* the marker of a construct as the design states it: a function body, a
\* loop body, a cleanup suite, and nothing else
DesignMarker(frame) ==
    IF frame.kind \in LexFunctions THEN <<DEF_>>
    ELSE IF frame.kind \in LexLoops /\ SuiteOf(frame) = "body" THEN <<LOOP>>
    ELSE IF frame.kind \in TryKinds /\ SuiteOf(frame) = "finalbody" THEN <<FINALLY>>
    ELSE <<>>

RECURSIVE DesignMarkers(_, _)
DesignMarkers(p, i) ==
    IF i = 0 THEN <<>> ELSE DesignMarkers(p, i - 1) \o DesignMarker(p[i])

\* C14: during a traversal the stack is, outermost first, the markers of
\* the function bodies, loop bodies and cleanup suites that enclose the place
\* the traversal is at, and of nothing else.
C14_StackMirrorsNesting ==
    pc = "visit" => state = DesignMarkers(path, Len(path))

\* a try statement of which the body, a handler or the else clause is walked
OpenTry(frame) == frame.kind \in TryKinds /\ SuiteOf(frame) # "finalbody"

NotOpenTry(frame) == ~OpenTry(frame)

\* the nesting with those try statements taken away
WithoutOpenTries == SelectSeq(path, NotOpenTry)

\* C15: the stack is what it would be were the try statements whose body,
\* handlers or else clause is being walked absent: a try statement, Try or
\* TryStar, has its FINALLY on the stack only while its finalbody is walked.
C15_TryTransparentOutsideFinalbody ==
    pc = "visit" =>
        state = LexMarkers(WithoutOpenTries, Len(WithoutOpenTries))

\* for ...: try* ... except* ...: break -- visited with the loop's marker alone
C15_Witness ==
    /\ JustVisited({"Break", "Continue"})
    /\ top.kind = "TryStar"
    /\ curField = "handlers"
    /\ state = <<LOOP>>
    /\ findings = <<>>

\* C16: the LOOP markers on the stack are those of the for and while
\* statements whose body is being walked; a loop whose else clause is being
\* walked has none.
C16_LoopMarkerOnlyInBody ==
    pc = "visit" =>
        Cardinality({i \in DOMAIN state : state[i] = LOOP})
            = Cardinality({i \in DOMAIN path :
                  path[i].kind \in LoopKinds /\ SuiteOf(path[i]) = "body"})

\* the handling of the latest input has ended
InputEnded == last \in {"ok", "parsefail", "readfail", "visitfail"}

\* C17: when the handling of an input has ended, either its line count has
\* been added to the total, its findings with it, or findings and lines are
\* what they were when the input was taken up.
C17_AtomicPerInput ==
    InputEnded =>
        \/ lines > before.lines
        \/ findings = before.findings /\ lines = before.lines

IsPrefix(a, b) == Len(a) <= Len(b) /\ SubSeq(b, 1, Len(a)) = a

\* C18: in every step of a scan the findings recorded so far stay, in place
\* and unchanged, as a prefix of findings, and lines does not decrease.
C18_OnlyGrows ==
    [][IsPrefix(findings, findings') /\ lines' >= lines]_vars

\* a read failure met after an input had contributed a finding and lines
C18_Witness ==
    /\ last = "readfail"
    /\ findings # <<>>
    /\ findings = before.findings
    /\ lines > 0

\* C19: while an input is traversed the stack holds the markers of the
\* constructs of that input being walked and nothing else, so it is empty
\* when the traversal starts; and the findings added since the input was
\* taken up carry its filename.
C19_InputsIsolated ==
    pc = "visit" =>
        /\ state = LexMarkers(path, Len(path))
        /\ IsPrefix(before.findings, findings)
        /\ \A i \in (Len(before.findings) + 1)..Len(findings) :
              findings[i].filename = filename

\* an input starts its traversal after an input whose traversal was cut
\* short by an exception, findings recorded and lines not
C19_Witness ==
    /\ pc = "visit"
    /\ Len(path) = 1
    /\ top.n = 0
    /\ before.findings # <<>>
    /\ before.lines = 0
    /\ state = <<>>

====
